---- MODULE Spec2Model ----
(***************************************************************************)
(* Model of app.py: the Streamlit script that extracts the audio of an     *)
(* upload, denoises it (enhance_audio) and renders the spectrograms        *)
(* (plot_enhanced_spectrogram).                                            *)
(*                                                                         *)
(* float32 values are modelled exactly, as records [m, e] standing for     *)
(* m * 2^e with m odd (or m = 0, e = 0) and |m| < 2^24.  Integers are the  *)
(* 32-bit integers of TLC, which is the width of the widest sample type.   *)
(***************************************************************************)
EXTENDS Integers, Sequences, FiniteSets, TLC

VARIABLES
    profile,              \* which family of uploads the behaviour draws from
    pc,                   \* position of the script (module main logic, lines 176-246)
    uploaded_file,        \* st.file_uploader result (None or the upload)
    files,                \* contents of temp_dir: input_path, extracted_audio_path, final_output_path
    is_video,             \* line 189
    processing_source,    \* lines 197/200
    success,              \* lines 196/201
    enhancement_success,  \* line 206
    ui,                   \* what Streamlit has rendered in this script run, in order
    calls,                \* the stage functions invoked in this script run, in order
    failure,              \* which stage failed in this script run, and the message shown for it
    prev_failure,         \* the same, for the most recent earlier script run that failed
    ub                    \* how the build converts an out-of-range float to int16

vars == <<profile, pc, uploaded_file, files, is_video, processing_source,
          success, enhancement_success, ui, calls, failure, prev_failure, ub>>

None == "None"

----------------------------------------------------------------------------
(* Bounds of the model *)

\* longest decoded signal, in frames, of the multi-channel uploads
MaxFrames == 1
\* longest decoded signal, in frames, of the mono uploads with the wide sample alphabet
MaxMonoFrames == 2
----------------------------------------------------------------------------
(* float32 arithmetic *)

Abs(n) == IF n < 0 THEN -n ELSE n

Sign(n) == IF n < 0 THEN -1 ELSE IF n > 0 THEN 1 ELSE 0

Pow2(k) == 2 ^ k

Int32Min == -2147483647 - 1

Int32Max == 2147483647

RECURSIVE BitLen(_)
\* number of significant bits of n > 0 (0 for n = 0)
BitLen(n) == IF n = 0 THEN 0 ELSE 1 + BitLen(n \div 2)

RECURSIVE Norm(_, _)
\* the canonical record of m * 2^e
Norm(m, e) ==
    IF m = 0 THEN [m |-> 0, e |-> 0]
    ELSE IF m % 2 = 0 THEN Norm(m \div 2, e + 1)
    ELSE [m |-> m, e |-> e]

FZero == [m |-> 0, e |-> 0]

FOne == [m |-> 1, e |-> 0]

FAbs(f) == [m |-> Abs(f.m), e |-> f.e]

FScale(f, k) == IF f.m = 0 THEN f ELSE [m |-> f.m, e |-> f.e + k]

\* position of the leading bit of |f| (f # 0)
FTop(f) == BitLen(Abs(f.m)) + f.e

\* a < b for a, b >= 0
FLessPos(a, b) ==
    IF a.m = 0 THEN b.m # 0
    ELSE IF b.m = 0 THEN FALSE
    ELSE IF FTop(a) # FTop(b) THEN FTop(a) < FTop(b)
    ELSE LET lo == IF a.e < b.e THEN a.e ELSE b.e
         IN  a.m * Pow2(a.e - lo) < b.m * Pow2(b.e - lo)

\* round-to-nearest-even of the positive integer n to 24 significant bits
RoundPos24(n) ==
    LET k == BitLen(n) - 24 IN
    IF k <= 0 THEN Norm(n, 0)
    ELSE LET q    == n \div Pow2(k)
             r    == n % Pow2(k)
             half == Pow2(k - 1)
             up   == r > half \/ (r = half /\ q % 2 = 1)
         IN  Norm(IF up THEN q + 1 ELSE q, k)

\* ndarray.astype(np.float32) of an integer sample
F32FromInt(x) ==
    IF x = Int32Min THEN [m |-> -1, e |-> 31]
    ELSE IF x < 0 THEN LET p == RoundPos24(-x) IN [m |-> -p.m, e |-> p.e]
    ELSE RoundPos24(x)

RECURSIVE DivBits(_, _, _, _)
\* long division: extends the quotient q (remainder r, divisor d) by fraction
\* bits until it has 25 significant bits or the division is exact
DivBits(q, r, d, k) ==
    IF r = 0 \/ q >= Pow2(24) THEN [q |-> q, r |-> r, k |-> k]
    ELSE LET r2  == 2 * r
             bit == IF r2 >= d THEN 1 ELSE 0
         IN  DivBits(2 * q + bit, r2 - bit * d, d, k + 1)

\* float32 division a / b (b # 0), correctly rounded
F32Div(a, b) ==
    IF a.m = 0 THEN FZero
    ELSE LET s   == Sign(a.m) * Sign(b.m)
             n   == Abs(a.m)
             d   == Abs(b.m)
             res == DivBits(n \div d, n % d, d, 0)
             ex  == a.e - b.e - res.k
         IN  IF res.q < Pow2(24) THEN Norm(s * res.q, ex)
             ELSE LET q24 == res.q \div 2
                      g   == res.q % 2
                      up  == g = 1 /\ (res.r # 0 \/ q24 % 2 = 1)
                  IN  Norm(s * (IF up THEN q24 + 1 ELSE q24), ex + 1)

\* samples.astype(np.float32)
F32FromSeq(s) == [i \in 1..Len(s) |-> F32FromInt(s[i])]

----------------------------------------------------------------------------
(* Media: what pydub's AudioSegment holds after decoding *)

NoSound == [sample_width |-> 0, channels |-> 0, frame_rate |-> 0, samples |-> << >>]

Sound(w, c, r, s) == [sample_width |-> w, channels |-> c, frame_rate |-> r, samples |-> s]

\* a file of temp_dir: kind is "absent", "video", "audio", "corrupt" or "partial"
File(k, snd) == [kind |-> k, sound |-> snd]

Absent == File("absent", NoSound)

Paths == {"input_path", "extracted_audio_path", "final_output_path"}

RECURSIVE SeqsUpTo(_, _)
\* the sequences over S of length n
SeqsUpTo(S, n) ==
    IF n = 0 THEN {<< >>}
    ELSE {Append(s, x) : s \in SeqsUpTo(S, n - 1), x \in S}

\* sample values of the multi-channel uploads, per sample width in bytes
SmallAlphabet(w) ==
    CASE w = 1 -> {-128, 1}
      [] w = 2 -> {-32768, 3}
      [] w = 4 -> {Int32Max, -65536}

\* sample values of the mono uploads, per sample width in bytes
WideAlphabet(w) ==
    CASE w = 1 -> {-128, -1, 0, 1, 127}
      [] w = 2 -> {-32768, -32767, -1, 0, 1, 3, 32767}
      [] w = 4 -> {Int32Min, -65537, -1, 0, 65536, 16777217, Int32Max}

SampleWidths == {1, 2, 4}

\* the decodable audio uploads of a profile
AudioUploads(p) ==
    IF p = "multichannel"
    THEN UNION {{Sound(w, c, r, smp) :
                    r \in {44100, 48000},
                    smp \in UNION {SeqsUpTo(SmallAlphabet(w), n * c) : n \in 0..MaxFrames}}
                : w \in SampleWidths, c \in {1, 2, 3}}
    ELSE UNION {{Sound(w, 1, 44100, smp) :
                    smp \in UNION {SeqsUpTo(WideAlphabet(w), n) : n \in 0..MaxMonoFrames}}
                : w \in SampleWidths}

\* what ffmpeg -acodec pcm_s16le -ar 44100 -ac 1 can write: mono, 16-bit, 44100 Hz
ExtractedSounds(p) ==
    {Sound(2, 1, 44100, smp) :
        smp \in UNION {SeqsUpTo(IF p = "multichannel" THEN SmallAlphabet(2) ELSE WideAlphabet(2), n)
                       : n \in 0..(IF p = "multichannel" THEN MaxFrames ELSE MaxMonoFrames)}}

\* st.file_uploader(type=["mov", "mp4", "mp3", "wav"]): the name's extension and the content
Upload(ext, content) == [ext |-> ext, content |-> content]

NoUpload == Upload("", Absent)

Uploads(p) ==
    {Upload(ext, File("video", NoSound)) : ext \in {".mp4", ".MOV"}}
    \cup {Upload(ext, File("audio", snd)) : ext \in {".wav"}, snd \in AudioUploads(p)}
    \cup {Upload(ext, File("corrupt", NoSound)) : ext \in {".mp3"}}

----------------------------------------------------------------------------
(* enhance_audio *)

\* to_float with the 16-bit samples scaled by 65536.0 instead of 32768.0
to_float_halved(x, sample_width) ==
    IF sample_width = 2 THEN FScale(F32FromInt(x), -16)
    ELSE IF sample_width = 4 THEN FScale(F32FromInt(x), -31)
    ELSE F32FromInt(x)

\* lines 55-60: samples.astype(np.float32) scaled by the full scale of the sample width
to_float(x, sample_width) ==
    IF sample_width = 2 THEN FScale(F32FromInt(x), -15)
    ELSE IF sample_width = 4 THEN FScale(F32FromInt(x), -31)
    ELSE F32FromInt(x)

\* |f| < 2^31, so that the truncation of f is a 32-bit integer
FitsInt32(f) ==
    \/ f.e < 0
    \/ f.e <= 30 /\ Abs(f.m) <= Int32Max \div Pow2(f.e)

\* f truncated toward zero (FitsInt32(f))
Trunc(f) ==
    IF f.e >= 0 THEN f.m * Pow2(f.e)
    ELSE IF -f.e >= 24 THEN 0
    ELSE Sign(f.m) * (Abs(f.m) \div Pow2(-f.e))

InInt16(n) == -32768 <= n /\ n <= 32767

\* the low 16 bits of n as a signed integer
Wrap16(n) == (((n % 65536) + 32768) % 65536) - 32768

\* ndarray.astype(np.int16) of a float32: truncation when the value is in range;
\* out of range the C conversion is undefined, and the build either keeps the low
\* 16 bits of the 32-bit conversion ("wrap"; 0 when that conversion overflows too)
\* or saturates ("saturate")
astype_int16(f, build) ==
    IF FitsInt32(f) /\ InInt16(Trunc(f)) THEN Trunc(f)
    ELSE IF build = "wrap" THEN (IF FitsInt32(f) THEN Wrap16(Trunc(f)) ELSE 0)
    ELSE IF f.m < 0 THEN -32768 ELSE 32767

\* line 73: (reduced_noise_data * 32768.0).astype(np.int16)
to_int16(v, build) == astype_int16(FScale(v, 15), build)

\* nr.reduce_noise (an external library): it raises, or it returns a signal as long
\* as y; the signals kept here are y itself (nothing gated) and silence (all gated)
reduce_noise(y) ==
    {[raised |-> "", out |-> y],
     [raised |-> "", out |-> [i \in 1..Len(y) |-> FZero]],
     [raised |-> "ValueError", out |-> << >>],
     [raised |-> "MemoryError", out |-> << >>]}

\* AudioSegment.from_file: the decoded sound, or the exception raised
from_file(f) ==
    IF f.kind = "audio"
    THEN {[raised |-> "", sound |-> f.sound], [raised |-> "MemoryError", sound |-> NoSound]}
    ELSE {[raised |-> "CouldntDecodeError", sound |-> NoSound]}

\* cleaned_sound.export(output_path, format="mp3"): the file written, or the
\* exception raised, which leaves the output file opened and incomplete
export(snd) ==
    {[raised |-> "", file |-> File("audio", snd)],
     [raised |-> "CouldntEncodeError", file |-> File("partial", NoSound)],
     [raised |-> "MemoryError", file |-> File("partial", NoSound)]}

\* st.error(f"<prefix>: {e}")
ErrorText(prefix, e) == <<prefix, e>>

\* one invocation of a stage function, as recorded in calls: the function, its
\* path argument, whether it returned a true value, the sound it decoded, the
\* array it handed to the library (nr.reduce_noise or ax.specgram), the array
\* nr.reduce_noise returned, the int16 samples re-encoded, the step that raised
Call(fn, arg, ret, snd, y, out, pcm, stage) ==
    [fn |-> fn, arg |-> arg, ret |-> ret, sound |-> snd, y |-> y, out |-> out,
     pcm |-> pcm, stage |-> stage]

\* enhance_audio(input_path, output_path): every way the call can end.
\* ret is the value returned, error the exception text shown by st.error,
\* file what is at output_path afterwards; sound is the decoded input,
\* y the array passed to nr.reduce_noise, out its result, pcm the int16 samples;
\* stage is the step that raised ("" if none)
enhance_audio(input_path, output_path, build) ==
    UNION {
      IF d.raised # ""
      THEN {[ret |-> FALSE, error |-> d.raised, stage |-> "decode", file |-> files[output_path],
             sound |-> NoSound, y |-> << >>, out |-> << >>, pcm |-> << >>]}
      ELSE
        LET sound   == d.sound
            samples == sound.samples
            data    == [i \in 1..Len(samples) |-> to_float(samples[i], sound.sample_width)]
        IN UNION {
             IF r.raised # ""
             THEN {[ret |-> FALSE, error |-> r.raised, stage |-> "reduce", file |-> files[output_path],
                    sound |-> sound, y |-> data, out |-> << >>, pcm |-> << >>]}
             ELSE
               LET pcm == [i \in 1..Len(r.out) |-> to_int16(r.out[i], build)]
                   cleaned_sound == Sound(2, 1, sound.frame_rate, pcm)
               IN {[ret |-> x.raised = "", error |-> x.raised,
                    stage |-> IF x.raised = "" THEN "" ELSE "export", file |-> x.file,
                    sound |-> sound, y |-> data, out |-> r.out, pcm |-> pcm]
                   : x \in export(cleaned_sound)}
             : r \in reduce_noise(data)}
      : d \in from_file(files[input_path])}

----------------------------------------------------------------------------
(* plot_enhanced_spectrogram *)

\* line 96: samples.reshape((-1, 2))[:, 0], the first sample of every pair
FirstOfPairs(s) == [i \in 1..(Len(s) \div 2) |-> s[2 * i - 1]]

RECURSIVE MaxAbs(_)
\* line 100: np.max(np.abs(samples)) of a non-empty float32 array
MaxAbs(s) ==
    IF Len(s) = 1 THEN FAbs(s[1])
    ELSE LET rest == MaxAbs(Tail(s))
             head == FAbs(s[1])
         IN  IF FLessPos(head, rest) THEN rest ELSE head

\* NormalizePeak dividing by the 16-bit full scale instead of the peak
NormalizeFullScale(s) ==
    LET max_val == F32FromInt(32768)
    IN  [i \in 1..Len(s) |-> F32Div(s[i], max_val)]

\* lines 99-102: the float32 samples, divided by their peak when it is not 0
NormalizePeak(s) ==
    LET max_val == MaxAbs(s)
    IN  IF max_val.m > 0 THEN [i \in 1..Len(s) |-> F32Div(s[i], max_val)] ELSE s

\* lines 132-137: the "range" of each zone, in Hz
zones == << <<0, 100>>, <<100, 1000>>, <<1000, 4000>>, <<4000, 22050>> >>

\* the figure: its title, the samples and the rate given to ax.specgram, the zones drawn
Fig(title, x, Fs, zs) == [title |-> title, x |-> x, Fs |-> Fs, zones |-> zs]

NoFig == Fig("", << >>, 0, << >>)

\* plot_enhanced_spectrogram(file_path, title): the figure returned, or the
\* exception raised (np.max of an empty array raises ValueError)
plot_enhanced_spectrogram(file_path, title) ==
    UNION {
      IF d.raised # ""
      THEN {[raised |-> d.raised, fig |-> NoFig, sound |-> NoSound]}
      ELSE
        LET sound   == d.sound
            samples == IF sound.channels = 2 THEN FirstOfPairs(sound.samples)
                       ELSE sound.samples
            floats  == F32FromSeq(samples)
        IN  IF Len(floats) = 0
            THEN {[raised |-> "ValueError", fig |-> NoFig, sound |-> sound]}
            ELSE {[raised |-> "",
                   fig |-> Fig(title, NormalizePeak(floats), sound.frame_rate, zones),
                   sound |-> sound]}
      : d \in from_file(files[file_path])}

----------------------------------------------------------------------------
(* extract_audio_from_video *)

\* extract_audio_from_video(video_path, output_audio_path): every way the call can
\* end.  subprocess.run(check=True) returns (ffmpeg wrote the mono 16-bit file),
\* raises CalledProcessError (caught: st.error, return False) or raises OSError
\* because ffmpeg cannot be started (not caught: the exception leaves the function)
extract_audio_from_video(video_path, output_audio_path, p) ==
    {[ret |-> TRUE, error |-> "", uncaught |-> "", file |-> File("audio", snd)]
        : snd \in ExtractedSounds(p)}
    \cup {[ret |-> FALSE, error |-> "CalledProcessError", uncaught |-> "",
           file |-> File("partial", NoSound)],
          [ret |-> FALSE, error |-> "", uncaught |-> "FileNotFoundError",
           file |-> files[output_audio_path]]}

----------------------------------------------------------------------------
(* module main logic *)

\* an element rendered by Streamlit: kind is "error", "exception", "video",
\* "audio", "pyplot" or "download_button"
Element(kind, text, fig) == [kind |-> kind, text |-> text, fig |-> fig]

\* what Streamlit renders for an exception that leaves the script
UncaughtText(e) == <<"Uncaught", e>>

Failure(kind, shown) == [kind |-> kind, shown |-> shown]

NoFailure == Failure("", << >>)

\* line 188: os.path.splitext(input_path)[1].lower()
Lower(ext) == IF ext = ".MOV" THEN ".mov" ELSE ext

\* line 189
IsVideo(file_extension) == file_extension \in {".mov", ".mp4", ".avi", ".mkv"}

\* the denoising step entered whatever extraction returned
DenoiseAlways(s) == TRUE

\* line 203: if success
DenoiseGuard(s) == s

\* the results shown whatever enhance_audio returned
ResultsAlways(s) == TRUE

\* line 208: if enhancement_success
ResultsGuard(s) == s

\* the state before any upload: nothing in temp_dir, nothing rendered
Start ==
    /\ ub \in {"wrap", "saturate"}
    /\ pc = "await_upload"
    /\ uploaded_file = NoUpload
    /\ files = [p \in Paths |-> Absent]
    /\ is_video = FALSE
    /\ processing_source = None
    /\ success = FALSE
    /\ enhancement_success = FALSE
    /\ ui = << >>
    /\ calls = << >>
    /\ failure = NoFailure
    /\ prev_failure = NoFailure

\* lines 176-191: a file is uploaded; the script writes it to input_path
FileUploaded ==
    /\ pc = "await_upload"
    /\ \E u \in Uploads(profile) :
        /\ uploaded_file' = u
        /\ files' = [files EXCEPT !["input_path"] = u.content]
        /\ is_video' = IsVideo(Lower(u.ext))
    /\ pc' = "extraction"
    /\ UNCHANGED <<profile, processing_source, success, enhancement_success,
                   ui, calls, failure, prev_failure, ub>>

\* lines 194-197: the video branch of step 1
ExtractAudio ==
    /\ pc = "extraction"
    /\ is_video
    /\ \E o \in extract_audio_from_video("input_path", "extracted_audio_path", profile) :
        /\ files' = [files EXCEPT !["extracted_audio_path"] = o.file]
        /\ calls' = Append(calls, Call("extract_audio_from_video", "input_path",
                                       o.ret, NoSound, << >>, << >>, << >>,
                                       IF o.ret THEN "" ELSE "extraction"))
        /\ IF o.uncaught # ""
           THEN /\ ui' = Append(ui, Element("exception", UncaughtText(o.uncaught), NoFig))
                /\ failure' = Failure("extraction", UncaughtText(o.uncaught))
                /\ pc' = "crashed"
                /\ UNCHANGED <<success, processing_source>>
           ELSE /\ ui' = IF o.ret THEN ui
                         ELSE Append(ui, Element("error", ErrorText("FFmpeg Error", o.error), NoFig))
                /\ failure' = IF o.ret THEN failure
                              ELSE Failure("extraction", ErrorText("FFmpeg Error", o.error))
                /\ success' = o.ret
                /\ processing_source' = "extracted_audio_path"
                /\ pc' = IF DenoiseGuard(o.ret) THEN "denoise" ELSE "end"
    /\ UNCHANGED <<profile, uploaded_file, is_video, enhancement_success, prev_failure, ub>>

\* lines 198-201: the audio branch of step 1
LoadAudio ==
    /\ pc = "extraction"
    /\ ~is_video
    /\ processing_source' = "input_path"
    /\ success' = TRUE
    /\ pc' = IF DenoiseGuard(TRUE) THEN "denoise" ELSE "end"
    /\ UNCHANGED <<profile, uploaded_file, files, is_video, enhancement_success,
                   ui, calls, failure, prev_failure, ub>>

\* lines 203-208: step 2, enhance_audio(processing_source, final_output_path)
Denoise ==
    /\ pc = "denoise"
    /\ \E o \in enhance_audio(processing_source, "final_output_path", ub) :
        /\ files' = [files EXCEPT !["final_output_path"] = o.file]
        /\ calls' = Append(calls, Call("enhance_audio", processing_source, o.ret,
                                       o.sound, o.y, o.out, o.pcm, o.stage))
        /\ ui' = IF o.ret THEN ui
                 ELSE Append(ui, Element("error", ErrorText("Processing Error", o.error), NoFig))
        /\ failure' = IF o.ret THEN failure
                      ELSE Failure(o.stage, ErrorText("Processing Error", o.error))
        /\ enhancement_success' = o.ret
        /\ pc' = IF ResultsGuard(o.ret) THEN "show_original" ELSE "end"
    /\ UNCHANGED <<profile, uploaded_file, is_video, processing_source, success,
                   prev_failure, ub>>

\* lines 215-226: the left column, the original and its spectrogram
ShowOriginal ==
    /\ pc = "show_original"
    /\ LET player == IF is_video THEN Element("video", <<"input_path">>, NoFig)
                     ELSE Element("audio", <<processing_source>>, NoFig)
       IN \E o \in plot_enhanced_spectrogram(processing_source, "Original Audio Spectrogram") :
            /\ calls' = Append(calls, Call("plot_enhanced_spectrogram", processing_source,
                                           o.raised = "", o.sound, o.fig.x, << >>, << >>,
                                           IF o.raised = "" THEN "" ELSE "render"))
            /\ IF o.raised # ""
               THEN /\ ui' = ui \o <<player, Element("exception", UncaughtText(o.raised), NoFig)>>
                    /\ failure' = Failure("render", UncaughtText(o.raised))
                    /\ pc' = "crashed"
               ELSE /\ ui' = ui \o <<player, Element("pyplot", <<"original">>, o.fig)>>
                    /\ failure' = failure
                    /\ pc' = "show_denoised"
    /\ UNCHANGED <<profile, uploaded_file, files, is_video, processing_source, success,
                   enhancement_success, prev_failure, ub>>

\* lines 229-246: the right column, the denoised audio, its spectrogram, the download
ShowDenoised ==
    /\ pc = "show_denoised"
    /\ LET player == Element("audio", <<"final_output_path">>, NoFig)
       IN \E o \in plot_enhanced_spectrogram("final_output_path", "Cleaned Audio Spectrogram") :
            /\ calls' = Append(calls, Call("plot_enhanced_spectrogram", "final_output_path",
                                           o.raised = "", o.sound, o.fig.x, << >>, << >>,
                                           IF o.raised = "" THEN "" ELSE "render"))
            /\ IF o.raised # ""
               THEN /\ ui' = ui \o <<player, Element("exception", UncaughtText(o.raised), NoFig)>>
                    /\ failure' = Failure("render", UncaughtText(o.raised))
                    /\ pc' = "crashed"
               ELSE /\ ui' = ui \o <<player, Element("pyplot", <<"denoised">>, o.fig),
                                     Element("download_button", <<"final_output_path">>, NoFig)>>
                    /\ failure' = failure
                    /\ pc' = "end"
    /\ UNCHANGED <<profile, uploaded_file, files, is_video, processing_source, success,
                   enhancement_success, prev_failure, ub>>

\* the script has ended (temp_dir is removed); the next upload runs it again
Rerun ==
    /\ pc \in {"end", "crashed"}
    /\ pc' = "await_upload"
    /\ uploaded_file' = NoUpload
    /\ files' = [p \in Paths |-> Absent]
    /\ is_video' = FALSE
    /\ processing_source' = None
    /\ success' = FALSE
    /\ enhancement_success' = FALSE
    /\ ui' = << >>
    /\ calls' = << >>
    /\ failure' = NoFailure
    /\ prev_failure' = IF failure.kind # "" THEN failure ELSE prev_failure
    /\ UNCHANGED <<profile, ub>>

Next ==
    \/ FileUploaded
    \/ ExtractAudio
    \/ LoadAudio
    \/ Denoise
    \/ ShowOriginal
    \/ ShowDenoised
    \/ Rerun

Init == profile = "multichannel" /\ Start

InitMono == profile = "mono" /\ Start

\* the multi-channel uploads: all sample widths, 1 to 3 channels, two frame rates
Spec == Init /\ [][Next]_vars

\* the mono uploads, with the wide sample alphabets
SpecMono == InitMono /\ [][Next]_vars

----------------------------------------------------------------------------
(* Properties *)

EnhanceCalls == {calls[i] : i \in {j \in DOMAIN calls : calls[j].fn = "enhance_audio"}}

PlotCalls == {calls[i] : i \in {j \in DOMAIN calls : calls[j].fn = "plot_enhanced_spectrogram"}}

ExtractCalls == {calls[i] : i \in {j \in DOMAIN calls : calls[j].fn = "extract_audio_from_video"}}

\* the call handed its array to nr.reduce_noise
ReducerInvoked(c) == c.stage \in {"", "reduce", "export"}

\* the call converted the reducer's result back to integers
Converted(c) == c.stage \in {"", "export"}

Elements == {ui[i] : i \in DOMAIN ui}

FinalFile == files["final_output_path"]

\* C1, as stated: with the noise reducer the identity, a sample of a 16-bit or a
\* 32-bit input comes out of enhance_audio unchanged and at the input's bit depth
C1_RoundTripBothDepths ==
    \A c \in EnhanceCalls :
        (c.ret /\ c.sound.sample_width \in {2, 4} /\ c.out = c.y)
            => \A i \in DOMAIN c.sound.samples :
                  /\ FinalFile.sound.sample_width = c.sound.sample_width
                  /\ FinalFile.sound.samples[i] = c.sound.samples[i]

\* C1, amended: with the noise reducer the identity, every sample of a 16-bit
\* input comes out of enhance_audio unchanged, as a 16-bit sample
C1_RoundTrip16 ==
    \A c \in EnhanceCalls :
        (c.ret /\ c.sound.sample_width = 2 /\ c.out = c.y)
            => /\ FinalFile.sound.sample_width = 2
               /\ FinalFile.sound.samples = c.sound.samples
               /\ c.pcm = c.sound.samples

\* a 16-bit input holding both ends of the range went through with the reducer
\* the identity
C1_Witness ==
    \E c \in EnhanceCalls :
        /\ c.ret
        /\ c.sound.sample_width = 2
        /\ c.sound.samples = <<-32768, 32767>>
        /\ c.out = c.y
        /\ FinalFile.kind = "audio"

\* the value a clamping conversion writes for the denoised sample v
Clamped(v) == astype_int16(FScale(v, 15), "saturate")

\* C2: every denoised float sample is written as a 16-bit integer clamped to
\* [-32768, 32767], never of the opposite sign: saturated, not wrapped (stated
\* here for the inputs of a supported sample width, 2 or 4 bytes)
C2_ClampNoWrap ==
    \A c \in EnhanceCalls :
        (Converted(c) /\ c.sound.sample_width \in {2, 4}) =>
            \A i \in DOMAIN c.out :
                /\ InInt16(c.pcm[i])
                /\ c.pcm[i] = Clamped(c.out[i])
                /\ Sign(c.pcm[i]) * Sign(c.out[i].m) >= 0

\* C3: a decoded, non-empty sound whose sample width is neither 2 nor 4 makes
\* enhance_audio fail with an error, without calling the noise reducer and
\* without output
C3_UnsupportedWidthFails ==
    \A c \in EnhanceCalls :
        (c.stage # "decode" /\ c.sound.sample_width \notin {2, 4} /\ c.sound.samples # << >>)
            => /\ ~c.ret
               /\ ~ReducerInvoked(c)
               /\ FinalFile.kind # "audio"
               /\ \E el \in Elements : el.kind = "error"

\* C4: a failed extraction, whatever its cause, is shown as one extraction error
\* and nothing else happens in that run: no other stage is called, nothing else
\* is rendered
C4_ExtractionFailFast ==
    \A c \in ExtractCalls :
        ~c.ret
            => /\ Len(calls) = 1
               /\ Len(ui) = 1
               /\ ui[1].kind = "error"
               /\ ui[1].text[1] = "FFmpeg Error"

\* the elements that present a result of the run
IsResult(el) == el.kind \in {"pyplot", "download_button", "audio", "video"}

IsDenoisedArtifact(el) ==
    \/ el.kind \in {"download_button"}
    \/ el.kind = "audio" /\ el.text = <<"final_output_path">>
    \/ el.kind = "pyplot" /\ el.text = <<"denoised">>

\* C5: a denoised player, a denoised spectrogram or the download is rendered only
\* when enhance_audio returned True with the complete file exported, and when a
\* step of enhance_audio failed nothing but the error is rendered
C5_AllOrNothing ==
    /\ (\E el \in Elements : IsDenoisedArtifact(el) \/ el.kind = "pyplot")
          => \E c \in EnhanceCalls :
                /\ c.ret
                /\ c.stage = ""
                /\ FinalFile = File("audio", Sound(2, 1, c.sound.frame_rate, c.pcm))
    /\ (\E c \in EnhanceCalls : ~c.ret)
          => \A el \in Elements : el.kind = "error"

\* the export of enhance_audio failed and the run is over
C5_Witness ==
    /\ pc = "end"
    /\ \E c \in EnhanceCalls : ~c.ret /\ c.stage = "export"
    /\ FinalFile.kind = "partial"

\* C6: for a sound of more than one channel (here of a supported sample width),
\* the array given to the noise reducer, the re-encoded output and the array
\* given to the spectrogram hold one sample per input frame
C6_MonoReduction ==
    /\ \A c \in EnhanceCalls :
          (ReducerInvoked(c) /\ c.sound.channels > 1 /\ c.sound.sample_width \in {2, 4})
              => /\ Len(c.y) * c.sound.channels = Len(c.sound.samples)
                 /\ c.ret => Len(FinalFile.sound.samples) * c.sound.channels
                                = Len(c.sound.samples)
    /\ \A c \in PlotCalls :
          (c.ret /\ c.sound.channels > 1)
              => Len(c.y) * c.sound.channels = Len(c.sound.samples)

\* C7: in every figure the four zones partition [0, Nyquist] of the plotted file:
\* they start at 0, each ends where the next begins, the last ends at frame_rate/2
C7_ZoneCoverage ==
    \A el \in Elements :
        el.kind = "pyplot" =>
            LET z == el.fig.zones IN
            /\ Len(z) = 4
            /\ z[1][1] = 0
            /\ \A k \in 1..3 : z[k][2] = z[k + 1][1]
            /\ \A k \in 1..4 : z[k][1] < z[k][2]
            /\ 2 * z[4][2] = el.fig.Fs

\* the failure kinds of C8 that raise in the code
StageKinds == {"extraction", "decode", "reduce", "export"}

\* C8: the failures of different stages show different messages, and a sound of an
\* unsupported bit depth shows a message of its own
C8_DistinctMessages ==
    /\ (failure.kind \in StageKinds /\ prev_failure.kind \in StageKinds
            /\ failure.kind # prev_failure.kind)
          => failure.shown # prev_failure.shown
    /\ \A c \in EnhanceCalls :
          (c.stage # "decode" /\ c.sound.sample_width \notin {2, 4} /\ c.sound.samples # << >>)
              => \E el \in Elements : el.kind = "error"

\* C9: enhance_audio is called only after extract_audio_from_video returned True
\* (video) or as the first stage, on the upload itself (audio); the denoised file
\* is plotted only after enhance_audio returned True and the file is complete; a
\* non-video run never calls the extraction and plots the upload as the original
C9_StageOrder ==
    /\ \A i \in DOMAIN calls :
          calls[i].fn = "enhance_audio" =>
              IF is_video
              THEN /\ i = 2
                   /\ calls[1].fn = "extract_audio_from_video"
                   /\ calls[1].ret
                   /\ calls[i].arg = "extracted_audio_path"
              ELSE /\ i = 1
                   /\ calls[i].arg = "input_path"
    /\ \A i \in DOMAIN calls :
          calls[i].fn = "plot_enhanced_spectrogram" =>
              /\ \E j \in 1..(i - 1) : calls[j].fn = "enhance_audio" /\ calls[j].ret
              /\ FinalFile.kind = "audio"
              /\ calls[i].arg = "final_output_path" => i = Len(calls) /\ i > 1
                    /\ calls[i - 1].fn = "plot_enhanced_spectrogram"
                    /\ calls[i - 1].ret
              /\ calls[i].arg # "final_output_path" =>
                    calls[i].arg = (IF is_video THEN "extracted_audio_path" ELSE "input_path")
    /\ ~is_video => ExtractCalls = {}

\* a video run went through every stage
C9_Witness ==
    /\ is_video
    /\ pc = "end"
    /\ Len(calls) = 4
    /\ calls[4].arg = "final_output_path"

\* the samples the call analyzed: the first channel of a stereo sound
Analyzed(c) == IF c.sound.channels = 2 THEN FirstOfPairs(c.sound.samples) ELSE c.sound.samples

\* C10: the samples given to the spectrogram transform peak at exactly 1 when the
\* signal has a non-zero sample, and are the unchanged zeros when it has none; a
\* decoded, non-empty signal never makes the normalisation fail
C10_UnitPeak ==
    \A c \in PlotCalls :
        /\ c.ret =>
              IF \E i \in DOMAIN Analyzed(c) : Analyzed(c)[i] # 0
              THEN /\ Len(c.y) = Len(Analyzed(c))
                   /\ MaxAbs(c.y) = FOne
              ELSE c.y = [i \in DOMAIN Analyzed(c) |-> FZero]
        /\ (~c.ret /\ c.sound # NoSound) => Len(c.sound.samples) = 0

\* a signal whose samples are in the ratio 1 : 3 was plotted: the peak became 1,
\* the other sample the float32 nearest to 1/3
C10_Witness ==
    \E c \in PlotCalls :
        /\ c.ret
        /\ c.sound.samples = <<1, 3>>
        /\ c.y[2] = FOne
        /\ c.y[1] = [m |-> 11184811, e |-> -25]

====
